---- MODULE Spec2Model ----
(***************************************************************************)
(* State-machine model of src/server.js: the Express/Mongoose backend.     *)
(*                                                                         *)
(* Every route handler is split at its `await`s: the synchronous code      *)
(* between two awaits runs to completion on Node's single thread, and each *)
(* awaited Mongoose call is one atomic operation of the MongoDB server.    *)
(* A handler with one store call is therefore two steps (arrival up to the *)
(* call being issued, then the store operation whose result fixes the      *)
(* response); POST /api/events/:id/register, which reads with findById and *)
(* later writes with save, is a read step and a separate write step.       *)
(*                                                                         *)
(* Two handlers are registered for POST /api/events/:id/register (lines    *)
(* 346 and 453).  Express dispatches to the first one registered, which    *)
(* always answers and never calls next(), so the handler of line 453 is    *)
(* never run and is not modelled.                                          *)
(***************************************************************************)
EXTENDS Integers, Sequences, FiniteSets, TLC

\* ------------------------------------------------------------------ bounds
MaxUsers == 2        \* users that can sign up
MaxEvents == 1       \* events that can be created
MaxSeats == 2        \* largest availableSeats an event is created with
MaxRegReq == 3       \* register requests in one behaviour
MaxBlogs == 1        \* blogs that can be created
MaxBlogReq == 3      \* requests to the protected blog routes open at a time
MaxSkew == 0         \* seconds sampled after the first and after the expiry

\* ------------------------------------------------------- program constants
ExpiresIn == 3600    \* jwt.sign(..., { expiresIn: "1h" }), in seconds

\* --------------------------------------------------------------- strings
(* A string that is meant to name a document: `hex` says whether it has    *)
(* the shape of an ObjectId (what mongoose.Types.ObjectId.isValid tests),  *)
(* `n` which ObjectId it spells when it has.  Documents' _id are 1, 2, ... *)
(* in order of creation, per collection.                                   *)
UserIdStrings == [hex : BOOLEAN, n : 1..(MaxUsers + 1)]

EventIdStrings == [hex : BOOLEAN, n : 1..(MaxEvents + 1)]

BlogIdStrings == [hex : BOOLEAN, n : 1..(MaxBlogs + 1)]

IsValidObjectId(s) == s.hex

ToObjectId(s) == s.n

Emails == {"a@x", "b@x"}

Passwords == {"p1"}

\* What a client may type at login.
LoginPasswords == Passwords \cup {"wrong"}

\* bcrypt.hash / bcrypt.compare: the hash is not the password, and compare
\* accepts exactly the password that was hashed.
BcryptHash(p) == <<"bcrypt", p>>

BcryptCompare(p, h) == h = BcryptHash(p)

VARIABLES
    users,          \* collection users: sequence of [email, password]; _id = index
    events,         \* collection events: sequence of [availableSeats, registrations]
    seatCapacity,   \* per event, the availableSeats it was created with (history)
    regReq,         \* the register requests: position, inputs, local document, response
    now,            \* the clock, in whole seconds (Math.floor(Date.now() / 1000))
    tokens,         \* the session tokens clients hold (login hands them out)
    blogs,          \* collection blogs: set of [id, author]
    blogAuthor,     \* per blog ever stored, its author; _id = index (history)
    blogReq         \* the requests to the protected blog routes

vars == <<users, events, seatCapacity, regReq, now, tokens, blogs, blogAuthor,
          blogReq>>

regVars == <<events, seatCapacity, regReq>>

authVars == <<now, tokens, blogs, blogAuthor, blogReq>>

\* ------------------------------------------------------------- responses
Response(status, message) == [status |-> status, message |-> message]

NoResponse == Response(0, "")

\* ---------------------------------------------------------------- signup
EmailTaken(email) == \E i \in 1..Len(users) : users[i].email = email

\* app.post("/api/signup"): findOne by email, then hash and save.
Signup(email, password) ==
    /\ Len(users) < MaxUsers
    /\ ~EmailTaken(email)
    /\ users' = Append(users, [email |-> email, password |-> BcryptHash(password)])
    /\ UNCHANGED <<regVars, authVars>>

\* ------------------------------------------------------------------ events
NoEvent == [availableSeats |-> 0, registrations |-> <<>>]

EventExists(id) == id \in 1..Len(events)

\* eventSchema: availableSeats is required and has min: 0.
EventValid(doc) == doc.availableSeats >= 0

\* app.post("/api/events"): new Event({... availableSeats}) and save; a
\* document that fails validation is not stored (500).
CreateEvent(seats) ==
    /\ Len(events) < MaxEvents
    /\ LET doc == [availableSeats |-> seats, registrations |-> <<>>]
       IN  IF EventValid(doc)
           THEN /\ events' = Append(events, doc)
                /\ seatCapacity' = Append(seatCapacity, seats)
           ELSE UNCHANGED <<events, seatCapacity>>
    /\ UNCHANGED <<users, regReq, authVars>>

\* ----------------------------------------------------- register requests
RegReqs == 1..MaxRegReq

IdleReg == [pc |-> "idle", eventId |-> 0, userId |-> [hex |-> FALSE, n |-> 1],
            found |-> FALSE, snapshot |-> NoEvent, doc |-> NoEvent,
            response |-> NoResponse]

\* The local document after lines 363-364: the ObjectId pushed onto
\* registrations and availableSeats decremented by one.  (ObjectId is called
\* without `new`, which the ObjectId of the installed driver is taken to
\* allow, as the handler expects.)
RegisterLocal(event, userId) ==
    [availableSeats |-> event.availableSeats - 1,
     registrations |-> Append(event.registrations, ToObjectId(userId))]

\* Lines 348-364: findById resolves with the event as stored at that moment;
\* the checks and the local modifications follow synchronously.
RegisterFind(r, id, userId) ==
    /\ regReq[r].pc = "idle"
    /\ r > 1 => regReq[r - 1].pc # "idle"
    /\ LET req == [regReq[r] EXCEPT !.eventId = ToObjectId(id), !.userId = userId]
           done(q, status, message) ==
               [q EXCEPT !.pc = "done", !.response = Response(status, message)]
       IN  IF ~IsValidObjectId(id)
           THEN \* findById rejects with a CastError, caught at line 369
                regReq' = [regReq EXCEPT ![r] =
                              done([req EXCEPT !.eventId = 0], 500,
                                   "Error registering for event")]
           ELSE IF ~EventExists(ToObjectId(id))
           THEN regReq' = [regReq EXCEPT ![r] = done(req, 404, "Event not found")]
           ELSE LET event == events[ToObjectId(id)]
                    seen == [req EXCEPT !.found = TRUE, !.snapshot = event]
                IN  IF event.availableSeats <= 0
                    THEN regReq' = [regReq EXCEPT ![r] =
                                       done(seen, 400, "No available seats")]
                    ELSE IF ~IsValidObjectId(userId)
                    THEN regReq' = [regReq EXCEPT ![r] =
                                       done(seen, 400, "Invalid userId")]
                    ELSE regReq' = [regReq EXCEPT ![r] =
                                       [seen EXCEPT !.pc = "save",
                                                    !.doc = RegisterLocal(event, userId)]]
    /\ UNCHANGED <<users, events, seatCapacity, authVars>>

\* What event.save() writes.  Mongoose sends the document's changes, not the
\* document: the push is an atomic $push of the pushed element onto the
\* stored array, the assignment a $set of availableSeats to the local value,
\* filtered by _id alone (a $push increments __v but does not test it).
SaveEvent(stored, snapshot, doc) ==
    [availableSeats |-> doc.availableSeats,
     registrations |-> stored.registrations
                         \o SubSeq(doc.registrations,
                                   Len(snapshot.registrations) + 1,
                                   Len(doc.registrations))]

\* Lines 366-368: save validates the local document, updates the stored
\* event in one store operation, and the handler answers.
RegisterSave(r) ==
    /\ regReq[r].pc = "save"
    /\ LET req == regReq[r]
       IN  IF EventValid(req.doc)
           THEN /\ events' = [events EXCEPT ![req.eventId] =
                                 SaveEvent(@, req.snapshot, req.doc)]
                /\ regReq' = [regReq EXCEPT ![r] =
                                 [req EXCEPT !.pc = "done",
                                             !.response = Response(200, "Registration successful")]]
           ELSE /\ regReq' = [regReq EXCEPT ![r] =
                                 [req EXCEPT !.pc = "done",
                                             !.response = Response(500, "Error registering for event")]]
                /\ UNCHANGED events
    /\ UNCHANGED <<users, seatCapacity, authVars>>


\* ------------------------------------------------------------------ clock
\* The readings of the clock a behaviour samples: the first seconds, and the
\* seconds around one token lifetime later.
ClockPoints ==
    {t \in 0..(ExpiresIn + MaxSkew) : t <= MaxSkew \/ t >= ExpiresIn - 1}

Tick(t) ==
    /\ t > now
    /\ now' = t
    /\ UNCHANGED <<users, regVars, tokens, blogs, blogAuthor, blogReq>>

\* ----------------------------------------------------------------- tokens
SECRET_KEY == "JWT_SECRET"

\* A token string as a client sends it: "jwt" is a well-formed JWT carrying
\* the payload and signed with `key`; "garbage" does not parse as a JWT;
\* "empty" is the empty string; "undefined" is no string at all.
TokenString(kind, userId, iat, exp, key) ==
    [kind |-> kind, userId |-> userId, iat |-> iat, exp |-> exp, key |-> key]

Undefined == TokenString("undefined", 0, 0, 0, "")

EmptyString == TokenString("empty", 0, 0, 0, "")

Garbage == TokenString("garbage", 0, 0, 0, "")

\* jwt.sign({ userId }, key, { expiresIn: "1h" }) at clock reading t: iat is
\* the clock reading and exp is iat plus the lifetime.
JwtSign(userId, key, t) == TokenString("jwt", userId, t, t + ExpiresIn, key)

\* Faulty variant of JwtVerify: the expiry test is t > exp, so a token still verifies
\* in the second it expires.
JwtVerifyLate(token, key, t) ==
    IF token.kind # "jwt" THEN [error |-> "JsonWebTokenError", userId |-> 0]
    ELSE IF token.key # key THEN [error |-> "JsonWebTokenError", userId |-> 0]
    ELSE IF t > token.exp THEN [error |-> "TokenExpiredError", userId |-> 0]
    ELSE [error |-> "", userId |-> token.userId]

\* jwt.verify(token, key) at clock reading t: the token is decoded, its
\* signature is checked, then its expiry (expired when t >= exp).
JwtVerify(token, key, t) ==
    IF token.kind # "jwt" THEN [error |-> "JsonWebTokenError", userId |-> 0]
    ELSE IF token.key # key THEN [error |-> "JsonWebTokenError", userId |-> 0]
    ELSE IF t >= token.exp THEN [error |-> "TokenExpiredError", userId |-> 0]
    ELSE [error |-> "", userId |-> token.userId]

\* app.post("/api/login"): findOne by email, bcrypt.compare, jwt.sign.  The
\* token goes to the client and nothing is stored by the server; the client
\* keeps the user's newest token in place of an older one.
Login(email, password) ==
    /\ \E i \in 1..Len(users) :
          /\ users[i].email = email
          /\ BcryptCompare(password, users[i].password)
          /\ LET token == JwtSign(i, SECRET_KEY, now)
             IN  tokens' = {k \in tokens : k.userId # i} \cup {token}
    /\ UNCHANGED <<users, regVars, now, blogs, blogAuthor, blogReq>>

\* --------------------------------------------------------- authentication
\* The Authorization header: absent, or a scheme word followed by the words
\* that a split on ' ' yields after it.
Header(present, scheme, rest) == [present |-> present, scheme |-> scheme, rest |-> rest]

NoHeader == Header(FALSE, "", <<>>)

\* authHeader.split(' ')[1]
SecondWord(header) == IF Len(header.rest) >= 1 THEN header.rest[1] ELSE Undefined

Falsy(token) == token.kind \in {"undefined", "empty"}

\* Faulty variant of Authenticate: the catch block does not end the request, and
\* next() is called whatever jwt.verify did.
AuthenticateFallsThrough(header, t) ==
    IF ~header.present
    THEN [next |-> FALSE, userId |-> 0, verified |-> "",
          response |-> Response(401, "Authentication required")]
    ELSE IF Falsy(SecondWord(header))
    THEN [next |-> FALSE, userId |-> 0, verified |-> "",
          response |-> Response(401, "Authentication required")]
    ELSE LET decoded == JwtVerify(SecondWord(header), SECRET_KEY, t)
         IN  [next |-> TRUE, userId |-> decoded.userId,
              verified |-> IF decoded.error = "" THEN "ok" ELSE decoded.error,
              response |-> NoResponse]

\* authenticate (lines 109-123): the response it sends, or next() with
\* req.userId set.  `verified` keeps what jwt.verify did.
Authenticate(header, t) ==
    IF ~header.present
    THEN [next |-> FALSE, userId |-> 0, verified |-> "",
          response |-> Response(401, "Authentication required")]
    ELSE IF Falsy(SecondWord(header))
    THEN [next |-> FALSE, userId |-> 0, verified |-> "",
          response |-> Response(401, "Authentication required")]
    ELSE LET decoded == JwtVerify(SecondWord(header), SECRET_KEY, t)
         IN  IF decoded.error = ""
             THEN [next |-> TRUE, userId |-> decoded.userId, verified |-> "ok",
                   response |-> NoResponse]
             ELSE [next |-> FALSE, userId |-> 0, verified |-> decoded.error,
                   response |-> Response(401, "Invalid token")]

\* The token strings a client may send: the tokens login handed out, the
\* same payloads signed with another key, and a string that is no JWT.
ClientTokens ==
    tokens \cup {[k EXCEPT !.key = "other-key"] : k \in tokens} \cup {Garbage}

ClientHeaders ==
    {NoHeader, Header(TRUE, "Bearer", <<>>)}
        \cup {Header(TRUE, "Bearer", <<k>>) : k \in ClientTokens}
        \cup {Header(TRUE, "Bearer", <<EmptyString, k>>) : k \in tokens}
        \cup {Header(TRUE, "Basic", <<k>>) : k \in tokens}

\* ------------------------------------------------------------------ blogs
BlogReqs == 1..MaxBlogReq

IdleBlog == [pc |-> "idle", route |-> "", header |-> NoHeader, at |-> 0,
             blogId |-> 0, userId |-> 0, verified |-> "", handlerRan |-> FALSE,
             stored |-> FALSE, removed |-> FALSE, response |-> NoResponse]

\* A protected route: authenticate runs first; the handler runs only when
\* authenticate calls next().
Arrive(r, route, header) ==
    LET auth == Authenticate(header, now)
        req == [blogReq[r] EXCEPT !.route = route, !.header = header, !.at = now,
                                  !.verified = auth.verified]
    IN  IF auth.next
        THEN [req EXCEPT !.userId = auth.userId, !.handlerRan = TRUE]
        ELSE [req EXCEPT !.pc = "done", !.response = auth.response]

\* app.post('/api/blogs', authenticate, ...) up to newBlog.save() being issued.
CreateBlogArrive(r, header, hasTitleAndContent) ==
    /\ blogReq[r].pc = "idle"
    /\ r > 1 => blogReq[r - 1].pc # "idle"
    /\ LET req == Arrive(r, "create", header)
       IN  IF ~req.handlerRan
           THEN blogReq' = [blogReq EXCEPT ![r] = req]
           ELSE IF ~hasTitleAndContent
           THEN blogReq' = [blogReq EXCEPT ![r] =
                               [req EXCEPT !.pc = "done",
                                           !.response = Response(400, "Title and content are required")]]
           ELSE blogReq' = [blogReq EXCEPT ![r] = [req EXCEPT !.pc = "save"]]
    /\ UNCHANGED <<users, regVars, now, tokens, blogs, blogAuthor>>

\* newBlog.save() and the 201 answer.
CreateBlogSave(r) ==
    /\ blogReq[r].pc = "save"
    /\ Len(blogAuthor) < MaxBlogs
    /\ LET id == Len(blogAuthor) + 1
       IN  /\ blogs' = blogs \cup {[id |-> id, author |-> blogReq[r].userId]}
           /\ blogAuthor' = Append(blogAuthor, blogReq[r].userId)
           /\ blogReq' = [blogReq EXCEPT ![r] =
                             [@ EXCEPT !.pc = "done", !.blogId = id, !.stored = TRUE,
                                       !.response = Response(201, "blog")]]
    /\ UNCHANGED <<users, regVars, now, tokens>>

\* Faulty variant of FindOne: the filter has no author, only the _id.
FindOneByIdOnly(stored, id, author) == {b \in stored : b.id = id}

\* Blog.findOneAndDelete({ _id, author }): the blogs that match the filter.
FindOne(stored, id, author) == {b \in stored : b.id = id /\ b.author = author}

\* Faulty variant of DeleteOne: the blog is found but not removed (a findOne, the
\* removal left to a later call).
DeleteOneNotApplied(stored, id, author) == stored

\* Blog.findOneAndDelete({ _id, author }): the collection afterwards.
DeleteOne(stored, id, author) == stored \ FindOne(stored, id, author)

\* app.delete('/api/blogs/:id', authenticate, ...) up to findOneAndDelete
\* being issued.
DeleteBlogArrive(r, header, id) ==
    /\ blogReq[r].pc = "idle"
    /\ r > 1 => blogReq[r - 1].pc # "idle"
    /\ LET req == Arrive(r, "delete", header)
       IN  IF ~req.handlerRan
           THEN blogReq' = [blogReq EXCEPT ![r] = req]
           ELSE IF ~IsValidObjectId(id)
           THEN \* the query rejects with a CastError, caught at line 287
                blogReq' = [blogReq EXCEPT ![r] =
                               [req EXCEPT !.pc = "done",
                                           !.response = Response(500, "Server error")]]
           ELSE blogReq' = [blogReq EXCEPT ![r] =
                               [req EXCEPT !.pc = "delete", !.blogId = ToObjectId(id)]]
    /\ UNCHANGED <<users, regVars, now, tokens, blogs, blogAuthor>>

\* findOneAndDelete as one store operation, and the answer it decides.
DeleteBlogStore(r) ==
    /\ blogReq[r].pc = "delete"
    /\ LET req == blogReq[r]
           blog == FindOne(blogs, req.blogId, req.userId)
       IN  /\ blogs' = DeleteOne(blogs, req.blogId, req.userId)
           /\ IF blog = {}
              THEN blogReq' = [blogReq EXCEPT ![r] =
                                  [req EXCEPT !.pc = "done",
                                              !.response = Response(404, "Blog not found")]]
              ELSE blogReq' = [blogReq EXCEPT ![r] =
                                  [req EXCEPT !.pc = "done", !.removed = TRUE,
                                              !.response = Response(200, "Blog deleted")]]
    /\ UNCHANGED <<users, regVars, now, tokens, blogAuthor>>

\* The answer has been delivered: the request is over and forgotten.
Close(r) ==
    /\ blogReq[r].pc = "done"
    /\ blogReq' = [blogReq EXCEPT ![r] = IdleBlog]
    /\ UNCHANGED <<users, regVars, now, tokens, blogs, blogAuthor>>

\* --------------------------------------------------------- specifications
Init ==
    /\ users = <<>>
    /\ events = <<>>
    /\ seatCapacity = <<>>
    /\ regReq = [r \in RegReqs |-> IdleReg]
    /\ now = 0
    /\ tokens = {}
    /\ blogs = {}
    /\ blogAuthor = <<>>
    /\ blogReq = [r \in BlogReqs |-> IdleBlog]

\* Event registration (an unauthenticated route).
Next ==
    \/ \E e \in Emails, p \in Passwords : Signup(e, p)
    \/ \E s \in -1..MaxSeats : CreateEvent(s)
    \/ \E r \in RegReqs, id \in EventIdStrings, u \in UserIdStrings : RegisterFind(r, id, u)
    \/ \E r \in RegReqs : RegisterSave(r)

Spec == Init /\ [][Next]_vars

\* The headers of a client that sends a token it got from login.
BearerHeaders == {Header(TRUE, "Bearer", <<k>>) : k \in tokens}

\* Login, the authentication middleware and the protected blog routes, with
\* arbitrary headers and the clock running.  What the middleware does with a
\* request depends on that request's header and on the clock alone, so the
\* requests are taken one after the other, each forgotten before the next.
NextAuth ==
    \/ \E e \in Emails, p \in Passwords : Signup(e, p)
    \/ \E e \in Emails, p \in LoginPasswords : Login(e, p)
    \/ \E t \in ClockPoints : Tick(t)
    \/ \E h \in ClientHeaders, b \in BOOLEAN : CreateBlogArrive(1, h, b)
    \/ CreateBlogSave(1)
    \/ \E h \in ClientHeaders, id \in BlogIdStrings : DeleteBlogArrive(1, h, id)
    \/ DeleteBlogStore(1)
    \/ Close(1)

SpecAuth == Init /\ [][NextAuth]_vars

\* The protected blog routes under concurrent authenticated requests.
NextBlog ==
    \/ \E e \in Emails, p \in Passwords : Signup(e, p)
    \/ \E e \in Emails, p \in LoginPasswords : Login(e, p)
    \/ \E r \in BlogReqs, h \in BearerHeaders, b \in BOOLEAN : CreateBlogArrive(r, h, b)
    \/ \E r \in BlogReqs : CreateBlogSave(r)
    \/ \E r \in BlogReqs, h \in BearerHeaders, id \in BlogIdStrings : DeleteBlogArrive(r, h, id)
    \/ \E r \in BlogReqs : DeleteBlogStore(r)

SpecBlog == Init /\ [][NextBlog]_vars

\* ================================================== event registration
RegSucceeded(r) ==
    regReq[r].pc = "done" /\ regReq[r].response = Response(200, "Registration successful")

RegSoldOut(r) ==
    regReq[r].pc = "done" /\ regReq[r].response = Response(400, "No available seats")

\* The register requests that found event e.
RegFound(e) == {r \in RegReqs : regReq[r].found /\ regReq[r].eventId = e}

\* The string names a user that exists.
NamesUser(s) == IsValidObjectId(s) /\ ToObjectId(s) \in 1..Len(users)

Occurrences(seq, x) == Cardinality({i \in 1..Len(seq) : seq[i] = x})

\* C1: for an event created with capacity N, the number of register requests
\* answered 'Registration successful' never exceeds N, under any interleaving
\* of the requests' reads and saves.
C1_AtMostNSuccesses ==
    \A e \in 1..Len(events) :
        Cardinality({r \in RegFound(e) : RegSucceeded(r)}) <= seatCapacity[e]

\* C2: an identity appears at most once in an event's registrations, and at
\* most one of its register requests for that event has succeeded.
C2_OneRegistrationPerIdentity ==
    \A e \in 1..Len(events) :
        \A u \in 1..(MaxUsers + 1) :
            /\ Occurrences(events[e].registrations, u) <= 1
            /\ Cardinality({r \in RegFound(e) :
                               RegSucceeded(r) /\ ToObjectId(regReq[r].userId) = u}) <= 1

\* C3: when k > N requests from k distinct existing identities for an event of
\* capacity N have all completed, exactly N have succeeded and every other one
\* was answered 400 'No available seats'.
C3_ExactlyNSucceed ==
    \A e \in 1..Len(events) :
        LET rs == RegFound(e)
        IN  ( /\ \A r \in rs : regReq[r].pc = "done" /\ NamesUser(regReq[r].userId)
              /\ \A r1, r2 \in rs : r1 # r2 => regReq[r1].userId # regReq[r2].userId
              /\ Cardinality(rs) > seatCapacity[e] )
            => /\ Cardinality({r \in rs : RegSucceeded(r)}) = seatCapacity[e]
               /\ \A r \in rs : RegSucceeded(r) \/ RegSoldOut(r)

\* C7: a register request of an identity that is already registered for the
\* event (the second of two sequential calls, a seat being left) is answered
\* AlreadyRegistered (409) and changes neither the seat count nor the
\* registrations.
C7_SecondCallAlreadyRegistered ==
    \A r \in RegReqs :
        ( /\ regReq[r].pc = "done"
          /\ regReq[r].found
          /\ regReq[r].snapshot.availableSeats > 0
          /\ IsValidObjectId(regReq[r].userId)
          /\ Occurrences(regReq[r].snapshot.registrations,
                         ToObjectId(regReq[r].userId)) > 0 )
        => /\ regReq[r].response.status = 409
           /\ ~RegSucceeded(r)

\* C8: a register request on an existing event whose userId does not name an
\* existing identity is answered with the bad-identity validation error,
\* whatever the seat count is, and changes nothing.
C8_BadIdentityRejected ==
    \A r \in RegReqs :
        (regReq[r].pc = "done" /\ regReq[r].found /\ ~NamesUser(regReq[r].userId))
        => regReq[r].response = Response(400, "Invalid userId")

\* C10: the stored availableSeats of an event created with capacity N equals N
\* minus the number of entries of its registrations, and is never negative.
C10_SeatsMatchRegistrations ==
    \A e \in 1..Len(events) :
        /\ events[e].availableSeats = seatCapacity[e] - Len(events[e].registrations)
        /\ events[e].availableSeats >= 0

\* ======================================== authentication and blog routes
\* The requests the server has seen and not yet forgotten.
Seen == {r \in BlogReqs : blogReq[r].pc # "idle"}

Answered(r) == blogReq[r].pc = "done"

\* The header carries, as its bearer credential, a token that login issued.
CarriesIssuedToken(h) ==
    /\ h.present
    /\ Len(h.rest) >= 1
    /\ h.rest[1].kind = "jwt"
    /\ h.rest[1].key = SECRET_KEY

\* C5: a token issued at login time t for identity id verifies to exactly id
\* at every time t' with t <= t' < t + 3600 s, and is rejected as expired at
\* every time t' >= t + 3600 s.
C5_TokenRoundTrip ==
    \A r \in Seen :
        CarriesIssuedToken(blogReq[r].header) =>
            LET token == blogReq[r].header.rest[1]
            IN  /\ (token.iat <= blogReq[r].at /\ blogReq[r].at < token.iat + 3600)
                      => /\ blogReq[r].verified = "ok"
                         /\ blogReq[r].userId = token.userId
                /\ blogReq[r].at >= token.iat + 3600
                      => /\ blogReq[r].verified = "TokenExpiredError"
                         /\ blogReq[r].response.status = 401

\* A token is verified in the last second of its life and yields its identity.
C5_Witness ==
    \E r \in Seen :
        /\ CarriesIssuedToken(blogReq[r].header)
        /\ blogReq[r].at = blogReq[r].header.rest[1].iat + 3599
        /\ blogReq[r].verified = "ok"
        /\ blogReq[r].userId = blogReq[r].header.rest[1].userId
        /\ blogReq[r].userId \in 1..Len(users)

AuthorizationAbsent(h) == ~h.present

NoBearerToken(h) == h.present /\ (h.rest = <<>> \/ h.rest[1].kind = "empty")

MalformedToken(h) ==
    /\ h.present
    /\ Len(h.rest) >= 1
    /\ \/ h.rest[1].kind = "garbage"
       \/ h.rest[1].kind = "jwt" /\ h.rest[1].key # SECRET_KEY

ExpiredToken(h, t) == CarriesIssuedToken(h) /\ t >= h.rest[1].iat + 3600

\* C6: a request to a protected route whose Authorization header is absent,
\* carries no bearer token, or carries a malformed or expired token is
\* answered 401 by the middleware; its handler never runs and it changes
\* nothing in the store.
C6_RejectedBeforeHandler ==
    \A r \in Seen :
        ( \/ AuthorizationAbsent(blogReq[r].header)
          \/ NoBearerToken(blogReq[r].header)
          \/ MalformedToken(blogReq[r].header)
          \/ ExpiredToken(blogReq[r].header, blogReq[r].at) )
        => /\ Answered(r)
           /\ blogReq[r].response.status = 401
           /\ ~blogReq[r].handlerRan
           /\ ~blogReq[r].stored
           /\ ~blogReq[r].removed

\* A delete sent with an expired token is answered 401 while the blog it
\* names is in the store.
C6_Witness ==
    \E r \in Seen :
        /\ blogReq[r].route = "delete"
        /\ ExpiredToken(blogReq[r].header, blogReq[r].at)
        /\ blogReq[r].response = Response(401, "Invalid token")
        /\ \E b \in blogs : b.author = blogReq[r].header.rest[1].userId

\* The delete requests on blog id whose handler has answered.
DeletesAnswered(id) ==
    {r \in BlogReqs : /\ Answered(r)
                      /\ blogReq[r].route = "delete"
                      /\ blogReq[r].handlerRan
                      /\ blogReq[r].blogId = id}

InStore(id) == \E b \in blogs : b.id = id

\* C4: a delete authenticated as identity A on a blog whose author is another
\* identity B is always answered 404, whether or not the blog is still in the
\* store, and removes nothing: a blog leaves the store only by a delete of
\* its author.
C4_OwnershipIsolation ==
    \A id \in 1..Len(blogAuthor) :
        /\ \A r \in DeletesAnswered(id) :
              blogReq[r].userId # blogAuthor[id]
                  => /\ blogReq[r].response = Response(404, "Blog not found")
                     /\ ~blogReq[r].removed
        /\ ~InStore(id)
              => \E r \in DeletesAnswered(id) :
                    blogReq[r].removed /\ blogReq[r].userId = blogAuthor[id]

\* Identity A's delete of B's blog is answered 404 and the blog is in the store.
C4_Witness ==
    \E id \in 1..Len(blogAuthor) :
        /\ [id |-> id, author |-> blogAuthor[id]] \in blogs
        /\ \E r \in DeletesAnswered(id) :
              /\ blogReq[r].userId # blogAuthor[id]
              /\ blogReq[r].userId \in 1..Len(users)
              /\ blogReq[r].response.status = 404

\* C9: of the concurrent authenticated deletes of one blog, at most one is
\* answered 'Blog deleted' and every other one is answered not-found; none
\* succeeds on a blog another request has removed.
C9_AtMostOneDelete ==
    \A id \in 1..Len(blogAuthor) :
        /\ Cardinality({r \in DeletesAnswered(id) : blogReq[r].response.status = 200}) <= 1
        /\ \A r \in DeletesAnswered(id) :
              \/ blogReq[r].response = Response(200, "Blog deleted") /\ ~InStore(id)
              \/ blogReq[r].response = Response(404, "Blog not found")

\* Two deletes of one blog by its author are open together: the one that
\* arrived later has been answered 'Blog deleted' while the earlier one is
\* still waiting for the store.
C9_Witness ==
    \E id \in 1..Len(blogAuthor) :
        \E r1 \in BlogReqs, r2 \in DeletesAnswered(id) :
            /\ r1 < r2
            /\ blogReq[r1].pc = "delete"
            /\ blogReq[r1].blogId = id
            /\ blogReq[r1].userId = blogAuthor[id]
            /\ blogReq[r2].userId = blogAuthor[id]
            /\ blogReq[r2].response = Response(200, "Blog deleted")
====
